---- MODULE Spec2Model ----
(***************************************************************************)
(* A model of dask_cuda.dgx.DGX (src/dask_cuda/dgx.py): one synchronous     *)
(* call that validates its flags, derives the GPU -> adapter mapping,       *)
(* calls worker_spec, get_ucx_env and SpecCluster in turn, and returns the  *)
(* cluster handle.  Each collaborator either returns or raises; DGX has no  *)
(* try/except, so whatever a collaborator raises leaves DGX as it is.       *)
(***************************************************************************)
EXTENDS Integers, Sequences, FiniteSets, TLC

\* Highest GPU index the derived adapter mapping is evaluated at
\* (a DGX-1 has GPUs 0..7).
MaxGpu == 7

GpuIndices == 0..MaxGpu

\* Python's None, and the marker of a local that is not bound yet.
None == "<None>"
Unbound == "<unbound>"

NoHandle == "<no handle>"
NoError == [type |-> "", msg |-> ""]

\* Values the parameters of DGX are drawn from.
Interfaces == {None, "eth0"}
DashboardAddresses == {":8787", ":0"}
ThreadCounts == {1, 2}
DeviceLists == {None, "0,1,2,3"}
Protocols == {None, "tcp", "ucx"}
KwargSets == {"{}", "{'memory_limit': '1GB'}"}

\* What the external collaborators can answer with.
WorkerSpecs == {"spec_a", "spec_b"}
Handles == {"cluster_a", "cluster_b"}
CollaboratorErrors ==
    { [type |-> "ValueError", msg |-> "invalid device list"],
      [type |-> "OSError", msg |-> "unreachable interface"],
      [type |-> "TypeError", msg |-> "unexpected keyword argument"] }

VARIABLES
    interface, dashboard_address, threads_per_worker, silence_logs,
    CUDA_VISIBLE_DEVICES, protocol, enable_tcp_over_ucx, enable_infiniband,
    enable_nvlink, kwargs,                       \* the parameters of DGX
    ucx_net_devices, spec, ucx_env, scheduler,   \* the locals of DGX
    pc,                                          \* the statement DGX is at
    result, error,                               \* what DGX returned / raised
    calls                                        \* collaborator calls so far

params == <<interface, dashboard_address, threads_per_worker, silence_logs,
            CUDA_VISIBLE_DEVICES, protocol, enable_tcp_over_ucx,
            enable_infiniband, enable_nvlink, kwargs>>
locals == <<ucx_net_devices, spec, ucx_env, scheduler>>
vars == <<params, locals, pc, result, error, calls>>

EmptyDict == [k \in {} |-> ""]

UnboundScheduler ==
    [cls |-> Unbound,
     options |-> [interface |-> Unbound, protocol |-> Unbound,
                  dashboard_address |-> Unbound, env |-> EmptyDict]]

Init ==
    /\ interface \in Interfaces
    /\ dashboard_address \in DashboardAddresses
    /\ threads_per_worker \in ThreadCounts
    /\ silence_logs \in BOOLEAN
    /\ CUDA_VISIBLE_DEVICES \in DeviceLists
    /\ protocol \in Protocols
    /\ enable_tcp_over_ucx \in BOOLEAN
    /\ enable_infiniband \in BOOLEAN
    /\ enable_nvlink \in BOOLEAN
    /\ kwargs \in KwargSets
    /\ ucx_net_devices = [tag |-> "unbound", val |-> ""]
    /\ spec = Unbound
    /\ ucx_env = EmptyDict
    /\ scheduler = UnboundScheduler
    /\ pc = "validate"
    /\ result = NoHandle
    /\ error = NoError
    /\ calls = <<>>

----------------------------------------------------------------------------
\* Pure parts of DGX.

ConfigError ==
    [type |-> "TypeError",
     msg |-> "Enabling InfiniBand or NVLink requires protocol='ucx'"]

\* The condition of the if statement that guards the raise.
InvalidConfig_infiniband_only(ib, nv, proto) == ib /\ proto # "ucx"

InvalidConfig_tcp_over_ucx_too(ib, nv, proto) ==
    (ib \/ nv \/ enable_tcp_over_ucx) /\ proto # "ucx"

InvalidConfig(ib, nv, proto) == (ib \/ nv) /\ proto # "ucx"

\* The lambda  i -> "mlx5_%d:1" % (i // 2).
AdapterName_no_pairing(i) == "mlx5_" \o ToString(i) \o ":1"

AdapterName(i) == "mlx5_" \o ToString(i \div 2) \o ":1"

\* The value bound to ucx_net_devices: "" or the lambda.
NetDevices_any_fabric(ib) ==
    IF ib \/ enable_nvlink
    THEN [tag |-> "lambda", val |-> [i \in GpuIndices |-> AdapterName(i)]]
    ELSE [tag |-> "str", val |-> ""]

NetDevices(ib) ==
    IF ib
    THEN [tag |-> "lambda", val |-> [i \in GpuIndices |-> AdapterName(i)]]
    ELSE [tag |-> "str", val |-> ""]

\* The keyword arguments of the worker_spec call.
WorkerSpecArgs ==
    [interface |-> interface,
     dashboard_address |-> dashboard_address,
     threads_per_worker |-> threads_per_worker,
     silence_logs |-> silence_logs,
     CUDA_VISIBLE_DEVICES |-> CUDA_VISIBLE_DEVICES,
     enable_tcp_over_ucx |-> enable_tcp_over_ucx,
     enable_infiniband |-> enable_infiniband,
     ucx_net_devices |-> ucx_net_devices,
     enable_nvlink |-> enable_nvlink,
     protocol |-> protocol,
     kwargs |-> kwargs]

\* The keyword arguments of the get_ucx_env call.
UcxEnvArgs_tcp_as_infiniband ==
    [interface |-> interface,
     enable_tcp |-> enable_tcp_over_ucx,
     enable_infiniband |-> enable_tcp_over_ucx,
     enable_nvlink |-> enable_nvlink]

UcxEnvArgs_tcp_only ==
    [interface |-> interface,
     enable_tcp |-> enable_tcp_over_ucx,
     enable_infiniband |-> FALSE,
     enable_nvlink |-> FALSE]

UcxEnvArgs ==
    [interface |-> interface,
     enable_tcp |-> enable_tcp_over_ucx,
     enable_infiniband |-> enable_infiniband,
     enable_nvlink |-> enable_nvlink]

\* get_ucx_env (dask_cuda/utils.py): the environment variables that switch
\* on TCP over UCX, InfiniBand and NVLink.  Either fabric implies TCP over
\* UCX; with no flag set the mapping is empty.
TcpVar == "TCP_OVER_UCX"
InfinibandVar == "INFINIBAND"
NvlinkVar == "NVLINK"
FabricVars == {InfinibandVar, NvlinkVar}

get_ucx_env(a) ==
    LET names ==
            (IF a.enable_tcp \/ a.enable_infiniband \/ a.enable_nvlink
             THEN {TcpVar} ELSE {})
            \cup (IF a.enable_infiniband THEN {InfinibandVar} ELSE {})
            \cup (IF a.enable_nvlink THEN {NvlinkVar} ELSE {})
    IN  [k \in names |-> "on"]

\* {**d}: a new dict with the items of d.
DictCopy(d) == [k \in DOMAIN d |-> d[k]]

\* The scheduler descriptor.
SchedulerDescriptor_defaulted ==
    [cls |-> "Scheduler",
     options |-> [interface |-> interface,
                  protocol |-> IF protocol = None THEN "tcp" ELSE protocol,
                  dashboard_address |-> dashboard_address,
                  env |-> DictCopy(ucx_env)]]

SchedulerDescriptor ==
    [cls |-> "Scheduler",
     options |-> [interface |-> interface,
                  protocol |-> protocol,
                  dashboard_address |-> dashboard_address,
                  env |-> DictCopy(ucx_env)]]

\* The arguments of the SpecCluster call.
SpecClusterArgs ==
    [workers |-> spec,
     scheduler |-> scheduler,
     silence_logs |-> silence_logs,
     kwargs |-> kwargs]

\* One collaborator call as DGX sees it: what was called, with what, and
\* what came back (a value, or an exception).
Returned(fn, args, ret) == [fn |-> fn, args |-> args, ret |-> ret, exc |-> NoError]
Raised(fn, args, e) == [fn |-> fn, args |-> args, ret |-> Unbound, exc |-> e]

----------------------------------------------------------------------------
\* The statements of DGX.

\* An exception leaves DGX: nothing after the raising statement runs.
Propagate_wrapped(e) ==
    /\ pc' = "raised"
    /\ error' = [type |-> "RuntimeError", msg |-> e.msg]
    /\ result' = result

Propagate(e) ==
    /\ pc' = "raised"
    /\ error' = e
    /\ result' = result

\* if (enable_infiniband or enable_nvlink) and protocol != "ucx": raise
Validate_after_worker_spec ==
    /\ pc = "validate"
    /\ IF InvalidConfig(enable_infiniband, enable_nvlink, protocol)
       THEN /\ calls' = Append(calls, Returned("worker_spec", WorkerSpecArgs, "spec_a"))
            /\ Propagate(ConfigError)
       ELSE /\ pc' = "net_devices"
            /\ UNCHANGED <<result, error, calls>>
    /\ UNCHANGED <<params, locals>>

Validate ==
    /\ pc = "validate"
    /\ IF InvalidConfig(enable_infiniband, enable_nvlink, protocol)
       THEN Propagate(ConfigError)
       ELSE /\ pc' = "net_devices"
            /\ UNCHANGED <<result, error>>
    /\ UNCHANGED <<params, locals, calls>>

\* ucx_net_devices = "" ; if enable_infiniband: ucx_net_devices = lambda ...
SetNetDevices ==
    /\ pc = "net_devices"
    /\ ucx_net_devices' = NetDevices(enable_infiniband)
    /\ pc' = "worker_spec"
    /\ UNCHANGED <<params, spec, ucx_env, scheduler, result, error, calls>>

\* spec = worker_spec(...)
CallWorkerSpec_retry ==
    /\ pc = "worker_spec"
    /\ \/ \E s \in WorkerSpecs :
            /\ calls' = Append(calls, Returned("worker_spec", WorkerSpecArgs, s))
            /\ spec' = s
            /\ pc' = "get_ucx_env"
            /\ UNCHANGED <<result, error>>
       \/ \E e \in CollaboratorErrors :
            /\ Len(calls) < 2
            /\ calls' = Append(calls, Raised("worker_spec", WorkerSpecArgs, e))
            /\ UNCHANGED <<spec, pc, result, error>>
    /\ UNCHANGED <<params, ucx_net_devices, ucx_env, scheduler>>

CallWorkerSpec ==
    /\ pc = "worker_spec"
    /\ \/ \E s \in WorkerSpecs :
            /\ calls' = Append(calls, Returned("worker_spec", WorkerSpecArgs, s))
            /\ spec' = s
            /\ pc' = "get_ucx_env"
            /\ UNCHANGED <<result, error>>
       \/ \E e \in CollaboratorErrors :
            /\ calls' = Append(calls, Raised("worker_spec", WorkerSpecArgs, e))
            /\ Propagate(e)
            /\ UNCHANGED spec
    /\ UNCHANGED <<params, ucx_net_devices, ucx_env, scheduler>>

\* ucx_env = get_ucx_env(...)
CallGetUcxEnv ==
    /\ pc = "get_ucx_env"
    /\ \/ LET env == get_ucx_env(UcxEnvArgs) IN
            /\ calls' = Append(calls, Returned("get_ucx_env", UcxEnvArgs, env))
            /\ ucx_env' = env
            /\ pc' = "scheduler"
            /\ UNCHANGED <<result, error>>
       \/ \E e \in CollaboratorErrors :
            /\ calls' = Append(calls, Raised("get_ucx_env", UcxEnvArgs, e))
            /\ Propagate(e)
            /\ UNCHANGED ucx_env
    /\ UNCHANGED <<params, ucx_net_devices, spec, scheduler>>

\* scheduler = {"cls": Scheduler, "options": {...}}
BuildScheduler ==
    /\ pc = "scheduler"
    /\ scheduler' = SchedulerDescriptor
    /\ pc' = "SpecCluster"
    /\ UNCHANGED <<params, ucx_net_devices, spec, ucx_env, result, error, calls>>

\* return SpecCluster(workers=spec, scheduler=scheduler, ...)
CallSpecCluster ==
    /\ pc = "SpecCluster"
    /\ \/ \E h \in Handles :
            /\ calls' = Append(calls, Returned("SpecCluster", SpecClusterArgs, h))
            /\ result' = h
            /\ pc' = "returned"
            /\ UNCHANGED error
       \/ \E e \in CollaboratorErrors :
            /\ calls' = Append(calls, Raised("SpecCluster", SpecClusterArgs, e))
            /\ Propagate(e)
    /\ UNCHANGED <<params, locals>>

Next ==
    \/ Validate
    \/ SetNetDevices
    \/ CallWorkerSpec
    \/ CallGetUcxEnv
    \/ BuildScheduler
    \/ CallSpecCluster

Spec == Init /\ [][Next]_vars

----------------------------------------------------------------------------
\* Properties.

FabricRequested == enable_infiniband \/ enable_nvlink

NumCalls == Len(calls)

\* DGX raised the error itself: no collaborator call ended in an exception.
RaisedByDGX ==
    /\ pc = "raised"
    /\ \A k \in 1..NumCalls : calls[k].exc = NoError

\* C1: once validation has run, a call with enable_infiniband or
\* enable_nvlink set and a protocol other than "ucx" (None and "tcp"
\* included, whatever enable_tcp_over_ucx is) has ended in the TypeError and
\* has no cluster handle.
C1_FabricWithoutUcxRaises ==
    (pc # "validate" /\ FabricRequested /\ protocol # "ucx")
        => /\ pc = "raised"
           /\ error = ConfigError
           /\ error.type = "TypeError"
           /\ result = NoHandle

C1_Witness ==
    /\ pc = "raised"
    /\ enable_nvlink /\ ~enable_infiniband
    /\ protocol = None
    /\ enable_tcp_over_ucx

\* C2: a call that ended in the configuration error has called no
\* collaborator: no worker_spec, get_ucx_env or SpecCluster call was made
\* and no worker spec exists.
C2_ConfigErrorBeforeAnyCall ==
    (pc = "raised" /\ error = ConfigError)
        => /\ calls = <<>>
           /\ spec = Unbound
           /\ ucx_net_devices.tag = "unbound"
           /\ result = NoHandle

C2_Witness ==
    /\ pc = "raised"
    /\ error = ConfigError
    /\ enable_infiniband
    /\ protocol = "tcp"

\* C3: with enable_infiniband set, the mapping handed to worker_spec sends
\* GPU i in 0..7 to "mlx5_<i div 2>:1"; (0,1), (2,3), (4,5), (6,7) each
\* share one adapter and GPUs of different pairs never share one.
ExpectedAdapters ==
    <<"mlx5_0:1", "mlx5_0:1", "mlx5_1:1", "mlx5_1:1",
      "mlx5_2:1", "mlx5_2:1", "mlx5_3:1", "mlx5_3:1">>

GpuPairs == {{0, 1}, {2, 3}, {4, 5}, {6, 7}}

C3_AdapterIsIndexDivTwo ==
    (enable_infiniband /\ NumCalls >= 1)
        => /\ calls[1].fn = "worker_spec"
           /\ calls[1].args.ucx_net_devices.tag = "lambda"
           /\ LET f == calls[1].args.ucx_net_devices.val IN
                /\ \A i \in 0..7 : f[i] = ExpectedAdapters[i + 1]
                /\ \A i, j \in 0..7 :
                     (f[i] = f[j]) <=> (\E p \in GpuPairs : i \in p /\ j \in p)

C3_Witness ==
    /\ enable_infiniband
    /\ NumCalls >= 1
    /\ calls[1].fn = "worker_spec"
    /\ calls[1].exc = NoError

\* C4: with enable_infiniband and enable_nvlink both false, no InfiniBand or
\* NVLink variable is in the environment at any point: not in ucx_env, not
\* in the scheduler descriptor, not in what SpecCluster receives; for every
\* enable_tcp_over_ucx and protocol.
C4_NoFabricVarsWithoutFabric ==
    (~enable_infiniband /\ ~enable_nvlink)
        => /\ DOMAIN ucx_env \cap FabricVars = {}
           /\ DOMAIN scheduler.options.env \cap FabricVars = {}
           /\ \A k \in 1..NumCalls :
                calls[k].fn = "SpecCluster"
                    => DOMAIN calls[k].args.scheduler.options.env
                           \cap FabricVars = {}

C4_Witness ==
    /\ ~enable_infiniband /\ ~enable_nvlink
    /\ enable_tcp_over_ucx
    /\ protocol = "tcp"
    /\ pc = "returned"

\* C5: with enable_infiniband or enable_nvlink set and protocol "ucx", the
\* environment of the scheduler descriptor has TCP over UCX switched on,
\* also when enable_tcp_over_ucx is false.
C5_FabricImpliesTcpOverUcx ==
    (FabricRequested /\ protocol = "ucx" /\ scheduler.cls # Unbound)
        => /\ TcpVar \in DOMAIN ucx_env
           /\ TcpVar \in DOMAIN scheduler.options.env
           /\ \A k \in 1..NumCalls :
                calls[k].fn = "SpecCluster"
                    => TcpVar \in DOMAIN calls[k].args.scheduler.options.env

C5_Witness ==
    /\ enable_nvlink /\ ~enable_infiniband
    /\ ~enable_tcp_over_ucx
    /\ protocol = "ucx"
    /\ pc = "returned"

\* C6: the scheduler descriptor SpecCluster receives carries the protocol
\* and the dashboard address the caller passed, unchanged.
C6_SchedulerKeepsProtocolAndDashboard ==
    \A k \in 1..NumCalls :
        calls[k].fn = "SpecCluster"
            => /\ calls[k].args.scheduler.options.protocol = protocol
               /\ calls[k].args.scheduler.options.dashboard_address
                      = dashboard_address

C6_Witness ==
    /\ pc = "returned"
    /\ protocol = None
    /\ dashboard_address = ":0"

\* C7: an exception of worker_spec, get_ucx_env or SpecCluster ends DGX with
\* that same exception: the raising call is the last call, DGX is in its
\* raised state with exactly that error, and there is no cluster handle.
C7_CollaboratorErrorSurfacesUnchanged ==
    \A k \in 1..NumCalls :
        calls[k].exc # NoError
            => /\ k = NumCalls
               /\ pc = "raised"
               /\ error = calls[k].exc
               /\ result = NoHandle

C7_Witness ==
    /\ pc = "raised"
    /\ NumCalls = 2
    /\ calls[2].fn = "get_ucx_env"
    /\ calls[2].exc.type = "OSError"

\* C8: no retries: the calls made are always a prefix of worker_spec,
\* get_ucx_env, SpecCluster (each at most once, in that order), each has
\* been made exactly once when DGX is past it, and the returned value is
\* the handle of the one SpecCluster call, whose workers argument is what
\* the one worker_spec call returned.
CallOrder == <<"worker_spec", "get_ucx_env", "SpecCluster">>

C9_OnlyConfigErrorFromDGX ==
    /\ RaisedByDGX
        => /\ error = ConfigError
           /\ FabricRequested
           /\ protocol # "ucx"
    /\ (pc # "validate" /\ (~FabricRequested \/ protocol = "ucx"))
        => /\ ~RaisedByDGX
           /\ pc \notin {"net_devices", "worker_spec"}
                => (NumCalls >= 1 /\ calls[1].fn = "worker_spec")

C9_Witness ==
    /\ enable_tcp_over_ucx
    /\ ~FabricRequested
    /\ protocol = "tcp"
    /\ NumCalls >= 1
    /\ calls[1].fn = "worker_spec"

\* C10: worker_spec receives the GPU -> adapter mapping exactly when
\* enable_infiniband is set; otherwise, also with enable_nvlink and
\* protocol "ucx", it receives the empty string.
C10_MappingIffInfiniband ==
    \A k \in 1..NumCalls :
        calls[k].fn = "worker_spec"
            => LET d == calls[k].args.ucx_net_devices IN
                 /\ (d.tag = "lambda") <=> enable_infiniband
                 /\ ~enable_infiniband => (d.tag = "str" /\ d.val = "")

C10_Witness ==
    /\ ~enable_infiniband
    /\ enable_nvlink
    /\ protocol = "ucx"
    /\ NumCalls >= 1
    /\ calls[1].fn = "worker_spec"

====
